---- MODULE Spec2Model ----
(***************************************************************************)
(* Model of the 4x4 f32 matrix library: the scalar Matrix4x4Sisd           *)
(* (src/src/matrix_sisd.rs) and the AVX/FMA Matrix4x4Simd                  *)
(* (src/src/matrix_simd.rs).                                               *)
(*                                                                         *)
(* Cells are f32 values.  The model carries the integer-valued f32 values  *)
(* of magnitude below 2^31 and rounds every arithmetic result to the 24    *)
(* bit significand of f32 (round to nearest, ties to even), so a product   *)
(* followed by an addition and a fused multiply-add are different          *)
(* computations.  The two zeros of f32 compare equal under ==, under       *)
(* abs_diff_eq, relative_eq and ulps_eq, and are one value here.           *)
(***************************************************************************)
EXTENDS Integers, Sequences, FiniteSets, TLC

VARIABLES m, out, avx, fma, pc, log, writes

vars == <<m, out, avx, fma, pc, log, writes>>

(***************************************************************************)
(* Bounds of the model.                                                    *)
(***************************************************************************)
MaxWrites == 1
MaxCalls == 2
MaxLen == 5

(***************************************************************************)
(* f32 arithmetic on integer values.                                       *)
(***************************************************************************)
N == 4
MantissaDigits == 24

Idx == 0 .. (N - 1)

RECURSIVE Pow2(_)
Pow2(n) == IF n = 0 THEN 1 ELSE 2 * Pow2(n - 1)

Abs(x) == IF x < 0 THEN -x ELSE x

\* The spacing of f32 values around magnitude ax (at least 1).
RECURSIVE Quantum(_, _)
Quantum(ax, q) ==
    IF ax \div q < Pow2(MantissaDigits) THEN q ELSE Quantum(ax, 2 * q)

\* The f32 nearest to the real number x: round to nearest, ties to even.
RoundF32(x) ==
    LET ax == Abs(x)
        q == Quantum(ax, 1)
        r == ax % q
        lo == ax - r
        up == IF 2 * r > q THEN TRUE
              ELSE IF 2 * r < q THEN FALSE
              ELSE (lo \div q) % 2 = 1
        z == IF r = 0 THEN ax ELSE IF up THEN lo + q ELSE lo
    IN  IF x < 0 THEN -z ELSE z

F32Mul(x, y) == RoundF32(x * y)
F32Add(x, y) == RoundF32(x + y)
F32Sub(x, y) == RoundF32(x - y)

\* floor(log2(ax)) for ax >= 1.
RECURSIVE Log2(_)
Log2(ax) == IF ax < 2 THEN 0 ELSE 1 + Log2(ax \div 2)

\* f32::to_bits of the magnitude of an f32 integer value.
F32Bits(ax) ==
    IF ax = 0 THEN 0
    ELSE LET e == Log2(ax)
             frac == IF e <= MantissaDigits - 1
                     THEN (ax - Pow2(e)) * Pow2(MantissaDigits - 1 - e)
                     ELSE (ax - Pow2(e)) \div Pow2(e - (MantissaDigits - 1))
         IN  (e + 127) * Pow2(MantissaDigits - 1) + frac

\* f32::signum: 1.0 for +0.0 and positive values, -1.0 for negative values.
Signum(x) == IF x < 0 THEN -1 ELSE 1

(***************************************************************************)
(* Values shared by both representations.  A matrix is its kind and its    *)
(* backing array [[f32; 4]; 4], indexed [row][column] from 0.              *)
(***************************************************************************)
Kinds == {"Sisd", "Simd"}

Panic == [kind |-> "Panic"]

\* <[T; 4]>::try_from(&[T]): succeeds exactly on a slice of length 4.
TryIntoArray(s) ==
    IF Len(s) = N
    THEN [ok |-> TRUE, val |-> [i \in Idx |-> s[i + 1]]]
    ELSE [ok |-> FALSE]

(***************************************************************************)
(* Matrix4x4Sisd                                                           *)
(***************************************************************************)
Sisd_IDENTITY ==
    [kind |-> "Sisd",
     rows |-> [r \in Idx |-> [c \in Idx |-> IF r = c THEN 1 ELSE 0]]]

Sisd_ZERO == [kind |-> "Sisd", rows |-> [r \in Idx |-> [c \in Idx |-> 0]]]

\* Each row is collected and converted with unwrap() while the outer
\* iterator is collected; then the collected rows are converted with unwrap().
Sisd_from_rows_short(src) ==
    LET rs == [i \in 1 .. Len(src) |-> TryIntoArray(src[i])]
    IN  IF \E i \in 1 .. Len(src) : ~rs[i].ok THEN Panic
        ELSE IF Len(src) < N THEN Panic
        ELSE [kind |-> "Sisd", rows |-> [i \in Idx |-> rs[i + 1].val]]

Sisd_from_rows(src) ==
    LET rs == [i \in 1 .. Len(src) |-> TryIntoArray(src[i])]
    IN  IF \E i \in 1 .. Len(src) : ~rs[i].ok THEN Panic
        ELSE LET outer == TryIntoArray([i \in 1 .. Len(src) |-> rs[i].val])
             IN  IF outer.ok THEN [kind |-> "Sisd", rows |-> outer.val]
                 ELSE Panic

\* bytemuck::cast_ref of [[f32; 4]; 4] to [f32; 16]: the rows one after another.
Sisd_flat_cells(M) == [i \in 0 .. (N * N - 1) |-> M.rows[i \div N][i % N]]

\* index = <<index.0, index.1>>
Sisd_index(M, index) == M.rows[index[2]][index[1]]

Sisd_index_mut(M, index, v) == [M EXCEPT !.rows[index[2]][index[1]] = v]

\* Iterator::sum over f32: a left fold of + from zero.
SumF32(p) ==
    LET acc[k \in 0 .. N] ==
            IF k = 0 THEN 0 ELSE F32Add(acc[k - 1], p[k - 1])
    IN  acc[N]

Sisd_mul_transposed(self, rhs) ==
    [kind |-> "Sisd",
     rows |-> [row \in Idx |-> [column \in Idx |->
        SumF32([k \in Idx |->
            F32Mul(Sisd_index(self, <<row, k>>), Sisd_index(rhs, <<k, column>>))])]]]

Sisd_mul(self, rhs) ==
    [kind |-> "Sisd",
     rows |-> [row \in Idx |-> [column \in Idx |->
        SumF32([k \in Idx |->
            F32Mul(Sisd_index(self, <<k, row>>), Sisd_index(rhs, <<column, k>>))])]]]

(***************************************************************************)
(* Matrix4x4Simd                                                           *)
(***************************************************************************)
Simd_IDENTITY ==
    [kind |-> "Simd",
     rows |-> [r \in Idx |-> [c \in Idx |-> IF r = c THEN 1 ELSE 0]]]

Simd_ZERO == [kind |-> "Simd", rows |-> [r \in Idx |-> [c \in Idx |-> 0]]]

Simd_from_rows(src) ==
    LET rs == [i \in 1 .. Len(src) |-> TryIntoArray(src[i])]
    IN  IF \E i \in 1 .. Len(src) : ~rs[i].ok THEN Panic
        ELSE LET outer == TryIntoArray([i \in 1 .. Len(src) |-> rs[i].val])
             IN  IF outer.ok THEN [kind |-> "Simd", rows |-> outer.val]
                 ELSE Panic

Simd_rows(M) == M.rows

\* bytemuck::try_cast_ref of [[f32; 4]; 4] to [f32; 16]; the cast cannot fail.
Simd_flat_cells_column_major(M) ==
    [i \in 0 .. (N * N - 1) |-> M.rows[i % N][i \div N]]

Simd_flat_cells(M) == [i \in 0 .. (N * N - 1) |-> M.rows[i \div N][i % N]]

Simd_index(M, index) == M.rows[index[2]][index[1]]

Simd_index_mut(M, index, v) == [M EXCEPT !.rows[index[2]][index[1]] = v]

\* impl From<Matrix4x4Sisd> for Matrix4x4Simd: the backing array is moved.
Simd_from_transposed(value) ==
    [kind |-> "Simd", rows |-> [r \in Idx |-> [c \in Idx |-> value.rows[c][r]]]]

Simd_from(value) == [kind |-> "Simd", rows |-> value.rows]

\* impl From<Matrix4x4Simd> for Matrix4x4Sisd
Sisd_from(value) == [kind |-> "Sisd", rows |-> value.rows]

(***************************************************************************)
(* The x86_64 intrinsics the kernel uses.  A __m256 is its 8 f32 lanes,    *)
(* lane 0 the lowest.                                                      *)
(***************************************************************************)
Lanes == 0 .. 7

Bit(imm, i) == (imm \div Pow2(i)) % 2

\* Each 128-bit half of the result is selected by 4 bits of imm8: bits 1:0
\* choose a.low, a.high, b.low or b.high, and bit 3 zeroes the half.
mm256_permute2f128_ps(imm, a, b) ==
    [i \in Lanes |->
        LET ctl == IF i < 4 THEN imm % 16 ELSE (imm \div 16) % 16
            sel == ctl % 4
            src == IF sel < 2 THEN a ELSE b
        IN  IF Bit(ctl, 3) = 1 THEN 0 ELSE src[4 * (sel % 2) + (i % 4)]]

\* Lane i is taken from b when bit i of imm8 is set, from a otherwise.
mm256_blend_ps(imm, a, b) == [i \in Lanes |-> IF Bit(imm, i) = 1 THEN b[i] ELSE a[i]]

mm256_set1_ps(v) == [i \in Lanes |-> v]

mm256_mul_ps(a, b) == [i \in Lanes |-> F32Mul(a[i], b[i])]

\* a * b + c with one rounding.
mm256_fmadd_ps(a, b, c) == [i \in Lanes |-> RoundF32(a[i] * b[i] + c[i])]

\* The two halves of flat_cells(), each read as one __m256.
Simd_rows_m256_split_at_4(M) ==
    LET cells == Simd_flat_cells(M)
    IN  <<[i \in Lanes |-> cells[i]], [i \in Lanes |-> cells[4 + i]]>>

Simd_rows_m256(M) ==
    LET cells == Simd_flat_cells(M)
    IN  <<[i \in Lanes |-> cells[i]], [i \in Lanes |-> cells[8 + i]]>>

\* rhs_rows_0_0, rhs_rows_1_1, rhs_rows_2_2, rhs_rows_3_3, indexed 0 .. 3.
rhs_rows_same_half(rhs) ==
    LET p == Simd_rows_m256(rhs)
    IN  [k \in Idx |->
            IF k = 0 THEN mm256_permute2f128_ps(0, p[1], p[1])
            ELSE IF k = 1 THEN mm256_permute2f128_ps(0, p[1], p[1])
            ELSE IF k = 2 THEN mm256_permute2f128_ps(0, p[2], p[2])
            ELSE mm256_permute2f128_ps(0, p[2], p[2])]

rhs_rows(rhs) ==
    LET p == Simd_rows_m256(rhs)
    IN  [k \in Idx |->
            IF k = 0 THEN mm256_permute2f128_ps(0, p[1], p[1])
            ELSE IF k = 1 THEN mm256_permute2f128_ps(17, p[1], p[1])
            ELSE IF k = 2 THEN mm256_permute2f128_ps(0, p[2], p[2])
            ELSE mm256_permute2f128_ps(17, p[2], p[2])]

\* self_column_k_rows_r0_r1 for k in 0 .. 3, where r1 = r0 + 1.
self_columns_low_only(self, r0) ==
    LET self_rows == Simd_rows(self)
    IN  [k \in Idx |->
            mm256_blend_ps(0,
                           mm256_set1_ps(self_rows[r0][k]),
                           mm256_set1_ps(self_rows[r0 + 1][k]))]

self_columns(self, r0) ==
    LET self_rows == Simd_rows(self)
    IN  [k \in Idx |->
            mm256_blend_ps(240,
                           mm256_set1_ps(self_rows[r0][k]),
                           mm256_set1_ps(self_rows[r0 + 1][k]))]

\* result_rows_0_1 (r0 = 0) and result_rows_2_3 (r0 = 2).
result_rows(self, rhs, r0) ==
    LET col == self_columns(self, r0)
        row == rhs_rows(rhs)
        t0 == mm256_mul_ps(col[0], row[0])
        t1 == mm256_fmadd_ps(col[1], row[1], t0)
        t2 == mm256_fmadd_ps(col[2], row[2], t1)
    IN  mm256_fmadd_ps(col[3], row[3], t2)

\* bytemuck::try_cast of [__m256; 2] to Matrix4x4Simd; the cast cannot fail.
Simd_multiply(self, rhs) ==
    LET result_rows_0_1 == result_rows(self, rhs, 0)
        result_rows_2_3 == result_rows(self, rhs, 2)
    IN  [kind |-> "Simd",
         rows |-> [r \in Idx |-> [c \in Idx |->
                    IF r < 2 THEN result_rows_0_1[4 * r + c]
                    ELSE result_rows_2_3[4 * (r - 2) + c]]]]

\* impl Mul for &Matrix4x4Simd.  hasAvx and hasFma are what
\* is_x86_feature_detected! answers; events are the steps the call takes.
Simd_mul_unchecked(self, rhs, hasAvx, hasFma) ==
    [val |-> Simd_multiply(self, rhs), events |-> <<"kernel">>]

Simd_mul_avx_only(self, rhs, hasAvx, hasFma) ==
    IF hasAvx
    THEN [val |-> Simd_multiply(self, rhs), events |-> <<"check_ok", "kernel">>]
    ELSE [val |-> Panic, events |-> <<"check_failed">>]

Simd_mul(self, rhs, hasAvx, hasFma) ==
    IF hasAvx /\ hasFma
    THEN [val |-> Simd_multiply(self, rhs), events |-> <<"check_ok", "kernel">>]
    ELSE [val |-> Panic, events |-> <<"check_failed">>]

(***************************************************************************)
(* approx: the relations on f32 that the matrix relations apply per cell.  *)
(* A tolerance is its binary exponent s and stands for 2^-s, so            *)
(* f32::EPSILON is s = 23; x * 2^-s is exact in f32.                        *)
(***************************************************************************)
DefaultEpsilonExp == 23
DefaultMaxRelativeExp == 23
DefaultMaxUlps == 4

\* d <= x * 2^-s for integers d, x >= 0.
LeScaled(d, x, s) == d <= x \div Pow2(s)

f32_abs_diff_eq(x, y, epsilon) == LeScaled(Abs(F32Sub(x, y)), 1, epsilon)

f32_relative_eq(x, y, epsilon, max_relative) ==
    IF x = y THEN TRUE
    ELSE LET abs_diff == Abs(F32Sub(x, y))
             largest == IF Abs(y) > Abs(x) THEN Abs(y) ELSE Abs(x)
         IN  IF LeScaled(abs_diff, 1, epsilon) THEN TRUE
             ELSE LeScaled(abs_diff, largest, max_relative)

f32_ulps_eq(x, y, epsilon, max_ulps) ==
    IF f32_abs_diff_eq(x, y, epsilon) THEN TRUE
    ELSE IF Signum(x) # Signum(y) THEN FALSE
    ELSE LET int_self == F32Bits(Abs(x))
             int_other == F32Bits(Abs(y))
         IN  IF int_self <= int_other
             THEN int_other - int_self <= max_ulps
             ELSE int_self - int_other <= max_ulps

\* self.flat_cells().iter().zip(other.flat_cells().iter()).all(..): the
\* pairs are visited in order and the first failing pair ends the iteration.
Sisd_abs_diff_eq_any(self, other, epsilon) ==
    \E i \in 0 .. (N * N - 1) :
        f32_abs_diff_eq(Sisd_flat_cells(self)[i], Sisd_flat_cells(other)[i], epsilon)

Sisd_abs_diff_eq(self, other, epsilon) ==
    LET a == Sisd_flat_cells(self)
        b == Sisd_flat_cells(other)
        all[i \in 0 .. N * N] ==
            IF i = N * N THEN TRUE
            ELSE IF ~f32_abs_diff_eq(a[i], b[i], epsilon) THEN FALSE
            ELSE all[i + 1]
    IN  all[0]

Sisd_relative_eq(self, other, epsilon, max_relative) ==
    LET a == Sisd_flat_cells(self)
        b == Sisd_flat_cells(other)
        all[i \in 0 .. N * N] ==
            IF i = N * N THEN TRUE
            ELSE IF ~f32_relative_eq(a[i], b[i], epsilon, max_relative) THEN FALSE
            ELSE all[i + 1]
    IN  all[0]

Sisd_ulps_eq(self, other, epsilon, max_ulps) ==
    LET a == Sisd_flat_cells(self)
        b == Sisd_flat_cells(other)
        all[i \in 0 .. N * N] ==
            IF i = N * N THEN TRUE
            ELSE IF ~f32_ulps_eq(a[i], b[i], epsilon, max_ulps) THEN FALSE
            ELSE all[i + 1]
    IN  all[0]

Simd_abs_diff_eq(self, other, epsilon) ==
    LET a == Simd_flat_cells(self)
        b == Simd_flat_cells(other)
        all[i \in 0 .. N * N] ==
            IF i = N * N THEN TRUE
            ELSE IF ~f32_abs_diff_eq(a[i], b[i], epsilon) THEN FALSE
            ELSE all[i + 1]
    IN  all[0]

Simd_relative_eq(self, other, epsilon, max_relative) ==
    LET a == Simd_flat_cells(self)
        b == Simd_flat_cells(other)
        all[i \in 0 .. N * N] ==
            IF i = N * N THEN TRUE
            ELSE IF ~f32_relative_eq(a[i], b[i], epsilon, max_relative) THEN FALSE
            ELSE all[i + 1]
    IN  all[0]

Simd_ulps_eq(self, other, epsilon, max_ulps) ==
    LET a == Simd_flat_cells(self)
        b == Simd_flat_cells(other)
        all[i \in 0 .. N * N] ==
            IF i = N * N THEN TRUE
            ELSE IF ~f32_ulps_eq(a[i], b[i], epsilon, max_ulps) THEN FALSE
            ELSE all[i + 1]
    IN  all[0]

(***************************************************************************)
(* Inputs.                                                                 *)
(***************************************************************************)
\* a and b of test_multiply, and the product the test expects.
TestA == <<<<1, 2, 0, 1>>, <<0, 1, 3, 2>>, <<4, 0, 1, 0>>, <<2, 1, 0, 1>>>>
TestB == <<<<2, 1, 3, 0>>, <<1, 0, 2, 1>>, <<0, 1, 1, 2>>, <<3, 0, 0, 1>>>>
TestExpected == <<<<7, 1, 7, 3>>, <<7, 3, 5, 9>>, <<8, 5, 13, 2>>, <<8, 2, 8, 2>>>>

\* Cells whose products need more than 24 significant bits.
WideA == <<<<-4096, 4097, 0, 0>>, <<1, 4097, 0, 0>>, <<0, 0, 1, 0>>, <<0, 0, 0, 1>>>>
WideB == <<<<4098, 0, 0, 0>>, <<4097, 1, 0, 0>>, <<0, 0, 1, 0>>, <<0, 0, 0, 1>>>>

IdentityRows == <<<<1, 0, 0, 0>>, <<0, 1, 0, 0>>, <<0, 0, 1, 0>>, <<0, 0, 0, 1>>>>

from_rows(kind, src) ==
    IF kind = "Sisd" THEN Sisd_from_rows(src) ELSE Simd_from_rows(src)

LeftPool == {TestA, WideA}
RightPool == {TestB, WideB, IdentityRows}

WriteVals == {2}

\* The cells written, as <<column, row>>.
WriteCells == {<<1, 0>>, <<0, 1>>, <<3, 2>>, <<2, 2>>}

\* A source of n rows of 4 values, except that row bad (if any) has len
\* values; value j of row i is 4 * (i - 1) + j, as in test_multiply_identity.
Source(n, bad, len) ==
    [i \in 1 .. n |-> [j \in 1 .. (IF i = bad THEN len ELSE N) |-> 4 * (i - 1) + j]]

Lens == (N - 1) .. MaxLen

Epsilons == {DefaultEpsilonExp, 0}
RelativeTolerances ==
    {<<DefaultEpsilonExp, DefaultMaxRelativeExp>>, <<DefaultEpsilonExp, 1>>}
UlpsTolerances ==
    {<<DefaultEpsilonExp, DefaultMaxUlps>>, <<DefaultEpsilonExp, Pow2(MantissaDigits - 1)>>}

HasFeatures == avx /\ fma

Kernels(l) == Cardinality({i \in 1 .. Len(l) : l[i] = "kernel"})
Checks(l) == Cardinality({i \in 1 .. Len(l) : l[i] \in {"check_ok", "check_failed"}})

(***************************************************************************)
(* The state machine: one matrix m held by the caller, the value out the   *)
(* last call returned, the processor's features, and the events of the     *)
(* vectorized multiplications so far.                                      *)
(***************************************************************************)
Init ==
    /\ avx \in BOOLEAN
    /\ fma \in BOOLEAN
    /\ \E kind \in Kinds, src \in LeftPool : m = from_rows(kind, src)
    /\ out = [op |-> "none"]
    /\ pc = "idle"
    /\ log = <<>>
    /\ writes = 0

FromRows(kind, n, bad, len) ==
    /\ pc = "idle"
    /\ LET src == Source(n, bad, len)
           res == from_rows(kind, src)
       IN  /\ out' = [op |-> "from_rows", kind |-> kind, src |-> src, val |-> res]
           /\ IF res = Panic
              THEN m' = m /\ pc' = "panicked"
              ELSE m' = res /\ pc' = pc
    /\ UNCHANGED <<avx, fma, log, writes>>

IndexMutSisd(column, row, v) ==
    /\ pc = "idle"
    /\ m.kind = "Sisd"
    /\ writes < MaxWrites
    /\ m' = Sisd_index_mut(m, <<column, row>>, v)
    /\ out' = [op |-> "index_mut", column |-> column, row |-> row, val |-> v]
    /\ writes' = writes + 1
    /\ UNCHANGED <<avx, fma, pc, log>>

IndexMutSimd(column, row, v) ==
    /\ pc = "idle"
    /\ m.kind = "Simd"
    /\ writes < MaxWrites
    /\ m' = Simd_index_mut(m, <<column, row>>, v)
    /\ out' = [op |-> "index_mut", column |-> column, row |-> row, val |-> v]
    /\ writes' = writes + 1
    /\ UNCHANGED <<avx, fma, pc, log>>

IntoSimd ==
    /\ pc = "idle"
    /\ m.kind = "Sisd"
    /\ m' = Simd_from(m)
    /\ out' = [op |-> "from", arg |-> m, val |-> Simd_from(m)]
    /\ UNCHANGED <<avx, fma, pc, log, writes>>

IntoSisd ==
    /\ pc = "idle"
    /\ m.kind = "Simd"
    /\ m' = Sisd_from(m)
    /\ out' = [op |-> "from", arg |-> m, val |-> Sisd_from(m)]
    /\ UNCHANGED <<avx, fma, pc, log, writes>>

MulSisd(src) ==
    /\ pc = "idle"
    /\ m.kind = "Sisd"
    /\ LET rhs == Sisd_from_rows(src)
       IN  out' = [op |-> "mul", lhs |-> m, rhs |-> rhs, val |-> Sisd_mul(m, rhs)]
    /\ UNCHANGED <<m, avx, fma, pc, log, writes>>

MulSimd(src) ==
    /\ pc = "idle"
    /\ m.kind = "Simd"
    /\ Kernels(log) < MaxCalls
    /\ LET rhs == Simd_from_rows(src)
           res == Simd_mul(m, rhs, avx, fma)
       IN  /\ out' = [op |-> "mul", lhs |-> m, rhs |-> rhs, val |-> res.val]
           /\ log' = log \o res.events
           /\ pc' = IF res.val = Panic THEN "panicked" ELSE pc
    /\ UNCHANGED <<m, avx, fma, writes>>

AbsDiffEq(src, epsilon) ==
    /\ pc = "idle"
    /\ LET other == from_rows(m.kind, src)
       IN  out' = [op |-> "abs_diff_eq", lhs |-> m, rhs |-> other,
                   epsilon |-> epsilon,
                   val |-> IF m.kind = "Sisd"
                           THEN Sisd_abs_diff_eq(m, other, epsilon)
                           ELSE Simd_abs_diff_eq(m, other, epsilon)]
    /\ UNCHANGED <<m, avx, fma, pc, log, writes>>

RelativeEq(src, tol) ==
    /\ pc = "idle"
    /\ LET other == from_rows(m.kind, src)
       IN  out' = [op |-> "relative_eq", lhs |-> m, rhs |-> other,
                   epsilon |-> tol[1], max_relative |-> tol[2],
                   val |-> IF m.kind = "Sisd"
                           THEN Sisd_relative_eq(m, other, tol[1], tol[2])
                           ELSE Simd_relative_eq(m, other, tol[1], tol[2])]
    /\ UNCHANGED <<m, avx, fma, pc, log, writes>>

UlpsEq(src, tol) ==
    /\ pc = "idle"
    /\ LET other == from_rows(m.kind, src)
       IN  out' = [op |-> "ulps_eq", lhs |-> m, rhs |-> other,
                   epsilon |-> tol[1], max_ulps |-> tol[2],
                   val |-> IF m.kind = "Sisd"
                           THEN Sisd_ulps_eq(m, other, tol[1], tol[2])
                           ELSE Simd_ulps_eq(m, other, tol[1], tol[2])]
    /\ UNCHANGED <<m, avx, fma, pc, log, writes>>

Next ==
    \/ \E kind \in Kinds, n \in Lens, len \in Lens :
         \E bad \in {0, 1, n} : (bad = 0 <=> len = N) /\ FromRows(kind, n, bad, len)
    \/ \E cell \in WriteCells, v \in WriteVals : IndexMutSisd(cell[1], cell[2], v)
    \/ \E cell \in WriteCells, v \in WriteVals : IndexMutSimd(cell[1], cell[2], v)
    \/ IntoSimd
    \/ IntoSisd
    \/ \E src \in RightPool : MulSisd(src)
    \/ \E src \in RightPool : MulSimd(src)
    \/ \E src \in LeftPool, epsilon \in Epsilons : AbsDiffEq(src, epsilon)
    \/ \E src \in LeftPool, tol \in RelativeTolerances : RelativeEq(src, tol)
    \/ \E src \in LeftPool, tol \in UlpsTolerances : UlpsEq(src, tol)

Spec == Init /\ [][Next]_vars

(***************************************************************************)
(* Vocabulary of the properties.                                           *)
(***************************************************************************)
Index(M, column, row) ==
    IF M.kind = "Sisd" THEN Sisd_index(M, <<column, row>>)
    ELSE Simd_index(M, <<column, row>>)

FlatCells(M) == IF M.kind = "Sisd" THEN Sisd_flat_cells(M) ELSE Simd_flat_cells(M)

IsMatrix(M) == M.kind \in Kinds

\* The products a[(k,row)] * b[(column,k)] and their sum, as real numbers.
Term(A, B, column, row, k) == Index(A, k, row) * Index(B, column, k)

PartialSum(A, B, column, row, j) ==
    LET acc[k \in -1 .. (N - 1)] ==
            IF k = -1 THEN 0 ELSE acc[k - 1] + Term(A, B, column, row, k)
    IN  acc[j]

\* No product and no partial sum of A * B needs rounding in f32.
Exact(A, B) ==
    \A column \in Idx, row \in Idx, k \in Idx :
        /\ Abs(Term(A, B, column, row, k)) <= Pow2(MantissaDigits)
        /\ Abs(PartialSum(A, B, column, row, k)) <= Pow2(MantissaDigits)

SimdMulDone ==
    /\ out.op = "mul"
    /\ out.lhs.kind = "Simd"
    /\ IsMatrix(out.val)

\* The three relations with the default tolerances, on Matrix4x4Sisd.
ApproxEqSisd(X, Y) ==
    /\ Sisd_abs_diff_eq(X, Y, DefaultEpsilonExp)
    /\ Sisd_relative_eq(X, Y, DefaultEpsilonExp, DefaultMaxRelativeExp)
    /\ Sisd_ulps_eq(X, Y, DefaultEpsilonExp, DefaultMaxUlps)

ApproxEqSimd(X, Y) ==
    /\ Simd_abs_diff_eq(X, Y, DefaultEpsilonExp)
    /\ Simd_relative_eq(X, Y, DefaultEpsilonExp, DefaultMaxRelativeExp)
    /\ Simd_ulps_eq(X, Y, DefaultEpsilonExp, DefaultMaxUlps)

(***************************************************************************)
(* C1.  Converting A and B from Matrix4x4Sisd to Matrix4x4Simd,            *)
(* multiplying with the vectorized multiply and converting back gives a    *)
(* matrix approximately equal, under the three relations with their        *)
(* default tolerances, to the scalar product of A and B.                   *)
(***************************************************************************)
C1_ApproxEqualToScalar ==
    SimdMulDone =>
        ApproxEqSisd(Sisd_from(out.val),
                     Sisd_mul(Sisd_from(out.lhs), Sisd_from(out.rhs)))

\* C1 as amended: when no product and no partial sum of A * B needs
\* rounding, the converted vectorized product equals the scalar product
\* cell for cell, and so is approximately equal to it under all three
\* relations.
C1_EqualWhenExact ==
    (SimdMulDone /\ Exact(out.lhs, out.rhs)) =>
        LET scalar == Sisd_mul(Sisd_from(out.lhs), Sisd_from(out.rhs))
            vector == Sisd_from(out.val)
        IN  /\ vector = scalar
            /\ ApproxEqSisd(vector, scalar)

C1_Witness ==
    /\ SimdMulDone
    /\ Exact(out.lhs, out.rhs)
    /\ out.lhs = Simd_from(Sisd_from_rows(TestA))
    /\ out.rhs = Simd_from(Sisd_from_rows(TestB))

(***************************************************************************)
(* C2.  For both representations the product is the standard matrix        *)
(* product under (column, row) indexing, a the left operand:               *)
(* c[(col,row)] = sum over k of a[(k,row)] * b[(col,k)], whenever the      *)
(* products and sums are f32 values; and a and b of test_multiply give the *)
(* product that test expects.                                              *)
(***************************************************************************)
C2_StandardProduct ==
    (out.op = "mul" /\ IsMatrix(out.val)) =>
        /\ Exact(out.lhs, out.rhs) =>
              \A column \in Idx, row \in Idx :
                  Index(out.val, column, row)
                      = PartialSum(out.lhs, out.rhs, column, row, N - 1)
        /\ (/\ out.lhs = from_rows(out.lhs.kind, TestA)
            /\ out.rhs = from_rows(out.lhs.kind, TestB))
              => out.val = from_rows(out.lhs.kind, TestExpected)

C2_Witness ==
    /\ out.op = "mul"
    /\ out.lhs = Sisd_from_rows(TestA)
    /\ out.rhs = Sisd_from_rows(TestB)
    /\ out.val = Sisd_from_rows(TestExpected)

(***************************************************************************)
(* C3.  On a processor without AVX or without FMA a vectorized multiply    *)
(* fails fatally: the kernel never runs, no matrix is returned, and the    *)
(* call does not compute the product another way.                          *)
(***************************************************************************)
C3_UnsupportedPanics ==
    ~HasFeatures =>
        /\ \A i \in 1 .. Len(log) : log[i] # "kernel"
        /\ (out.op = "mul" /\ out.lhs.kind = "Simd") =>
              /\ out.val = Panic
              /\ pc = "panicked"
              /\ log = <<"check_failed">>

C3_Witness ==
    /\ avx /\ ~fma
    /\ out.op = "mul"
    /\ out.lhs.kind = "Simd"
    /\ pc = "panicked"

(***************************************************************************)
(* C4.  Every run of the kernel is immediately preceded, in the same       *)
(* call, by a capability check that succeeded, on every invocation and not *)
(* only the first; a check succeeds only on a processor with AVX and FMA.  *)
(***************************************************************************)
C4_CheckBeforeEveryKernel ==
    /\ \A i \in 1 .. Len(log) :
          /\ log[i] = "kernel" => (i > 1 /\ log[i - 1] = "check_ok")
          /\ log[i] = "check_ok" => HasFeatures
    /\ Kernels(log) <= Checks(log)
    /\ (out.op = "mul" /\ out.lhs.kind = "Simd" /\ IsMatrix(out.val)) =>
          (Len(log) >= 2 /\ log[Len(log)] = "kernel")

C4_Witness ==
    /\ Kernels(log) = 2
    /\ Checks(log) = 2
    /\ SimdMulDone

(***************************************************************************)
(* C5.  Converting a matrix to the other representation and back gives     *)
(* the matrix it started from, and the converted matrix has the same value *)
(* in each of its 16 cells, at the same (column, row).                     *)
(***************************************************************************)
C5_RoundTrip ==
    out.op = "from" =>
        /\ out.arg.kind = "Sisd" => Sisd_from(Simd_from(out.arg)) = out.arg
        /\ out.arg.kind = "Simd" => Simd_from(Sisd_from(out.arg)) = out.arg
        /\ out.val.kind # out.arg.kind
        /\ m = out.val
        /\ \A column \in Idx, row \in Idx :
              Index(out.val, column, row) = Index(out.arg, column, row)

C5_Witness ==
    /\ out.op = "from"
    /\ out.arg.kind = "Sisd"
    /\ writes = 1
    /\ \E column \in Idx, row \in Idx :
          Index(out.arg, column, row) # Index(out.arg, row, column)

(***************************************************************************)
(* C6.  For both representations, after construction and after any         *)
(* indexed writes, flat_cells()[4 * row + column] = m[(column, row)], and  *)
(* a write m[(column, row)] = v is read back at both.                      *)
(***************************************************************************)
C6_FlatMatchesIndexed ==
    /\ IsMatrix(m)
    /\ \A column \in Idx, row \in Idx :
          FlatCells(m)[4 * row + column] = Index(m, column, row)
    /\ out.op = "index_mut" =>
          /\ FlatCells(m)[4 * out.row + out.column] = out.val
          /\ Index(m, out.column, out.row) = out.val

C6_Witness ==
    /\ out.op = "index_mut"
    /\ m.kind = "Simd"
    /\ out.column = 3
    /\ out.row = 2
    /\ FlatCells(m)[11] = 2
    /\ FlatCells(m)[14] # 2

(***************************************************************************)
(* C7.  For both representations M * IDENTITY is approximately equal to M  *)
(* under the three relations with their default tolerances.                *)
(***************************************************************************)
C7_RightIdentity ==
    (out.op = "mul" /\ IsMatrix(out.val)) =>
        /\ (out.lhs.kind = "Sisd" /\ out.rhs = Sisd_IDENTITY)
              => ApproxEqSisd(out.val, out.lhs)
        /\ (out.lhs.kind = "Simd" /\ out.rhs = Simd_IDENTITY)
              => ApproxEqSimd(out.val, out.lhs)

C7_Witness ==
    /\ SimdMulDone
    /\ out.rhs = Simd_IDENTITY
    /\ out.lhs = Simd_from_rows(WideA)

(***************************************************************************)
(* C8.  For both representations from_rows panics, and produces no matrix, *)
(* exactly when the source is not 4 rows of 4 values each; otherwise value *)
(* j of row i becomes cell (column j, row i).                              *)
(***************************************************************************)
WellShaped(src) == Len(src) = 4 /\ \A i \in 1 .. Len(src) : Len(src[i]) = 4

C8_FromRowsShape ==
    out.op = "from_rows" =>
        /\ out.val = Panic <=> ~WellShaped(out.src)
        /\ out.val = Panic => pc = "panicked"
        /\ out.val # Panic =>
              /\ out.val.kind = out.kind
              /\ m = out.val
              /\ \A i \in Idx, j \in Idx :
                    Index(out.val, j, i) = out.src[i + 1][j + 1]

C8_Witness ==
    /\ out.op = "from_rows"
    /\ out.kind = "Sisd"
    /\ Len(out.src) = 5
    /\ \A i \in 1 .. Len(out.src) : Len(out.src[i]) = 4
    /\ out.val = Panic

(***************************************************************************)
(* C9.  For both representations and each of abs_diff_eq, relative_eq and  *)
(* ulps_eq, two matrices compare equal exactly when the relation on f32,   *)
(* with the same tolerances, holds for the 16 pairs of cells at the same   *)
(* flat position; one pair outside tolerance makes them unequal.           *)
(***************************************************************************)
CellAt(M, i) == M.rows[i \div N][i % N]

FailingCells(o) ==
    {i \in 0 .. (N * N - 1) :
        IF o.op = "abs_diff_eq"
        THEN ~f32_abs_diff_eq(CellAt(o.lhs, i), CellAt(o.rhs, i), o.epsilon)
        ELSE IF o.op = "relative_eq"
        THEN ~f32_relative_eq(CellAt(o.lhs, i), CellAt(o.rhs, i),
                              o.epsilon, o.max_relative)
        ELSE ~f32_ulps_eq(CellAt(o.lhs, i), CellAt(o.rhs, i),
                          o.epsilon, o.max_ulps)}

C9_AllCells ==
    out.op \in {"abs_diff_eq", "relative_eq", "ulps_eq"} =>
        (out.val <=> FailingCells(out) = {})

C9_Witness ==
    /\ out.op = "abs_diff_eq"
    /\ out.lhs.kind = "Sisd"
    /\ out.epsilon = 0
    /\ Cardinality(FailingCells(out)) = 1
    /\ out.val = FALSE

(***************************************************************************)
(* C10.  In the kernel, broadcast row k of B holds row k of B in lanes     *)
(* 0 .. 3 and again in lanes 4 .. 7; for the row pairs (0,1) and (2,3),    *)
(* broadcast column k of A holds A[(k,r0)] in lanes 0 .. 3 and A[(k,r1)]   *)
(* in lanes 4 .. 7; the pair's result is the lanewise sum over k = 0,1,2,3 *)
(* in that order of column k times row k (a product, then three fused      *)
(* multiply-adds), and its lane i is cell (i mod 4, r0 + i div 4) of the   *)
(* output.                                                                 *)
(***************************************************************************)
LaneSum(A, B, r0, i) ==
    LET a(k) == Index(A, k, r0 + i \div 4)
        b(k) == Index(B, i % 4, k)
        t0 == RoundF32(a(0) * b(0))
        t1 == RoundF32(a(1) * b(1) + t0)
        t2 == RoundF32(a(2) * b(2) + t1)
    IN  RoundF32(a(3) * b(3) + t2)

C10_KernelStaging ==
    SimdMulDone =>
        /\ \A k \in Idx, i \in Lanes :
              rhs_rows(out.rhs)[k][i] = Index(out.rhs, i % 4, k)
        /\ \A r0 \in {0, 2}, k \in Idx, i \in Lanes :
              self_columns(out.lhs, r0)[k][i] = Index(out.lhs, k, r0 + i \div 4)
        /\ \A r0 \in {0, 2}, i \in Lanes :
              /\ result_rows(out.lhs, out.rhs, r0)[i]
                    = LaneSum(out.lhs, out.rhs, r0, i)
              /\ Index(out.val, i % 4, r0 + i \div 4)
                    = LaneSum(out.lhs, out.rhs, r0, i)

C10_Witness ==
    /\ SimdMulDone
    /\ out.lhs = Simd_from_rows(WideA)
    /\ out.rhs = Simd_from_rows(WideB)
    /\ Index(out.val, 0, 0) = 1

====
